---------------------------- MODULE Spec2Model ----------------------------
(***************************************************************************)
(* A model of queue.c: a singly linked queue of owned C strings with head  *)
(* and tail pointers and an element count.  The heap is explicit: every    *)
(* list_ele_t is a cell with a `next' and a `value' field, cells are       *)
(* handed out by malloc and given back by free.  The contents of a freed   *)
(* cell are indeterminate: a call that reads one has undefined behaviour,  *)
(* and either the process is killed ("crashed") or it goes on with values  *)
(* nothing determines ("undefined"); neither is followed any further.      *)
(***************************************************************************)
EXTENDS Integers, Sequences, FiniteSets, TLC

(***************************************************************************)
(* Bounds of the model.                                                    *)
(***************************************************************************)
MaxNodes == 3       \* cells malloc can hand out at the same time
MaxStrLen == 2      \* longest string a caller passes to an insert
MaxBuf == 3         \* largest bufsize a caller passes to q_remove_head

NULL == 0
\* size_t arithmetic wraps modulo 2^SizeBits.  The width is modelled as 30
\* bits, the widest TLC's integers hold; all that the code asks of it is
\* that 0 - 1 exceeds every buffer and every string.
SizeBits == 30
SizeMod == 2 ^ SizeBits

Nodes == 1..MaxNodes

\* The strings the callers of the model pass are the word of the bytes
\* 1, 2, ..., MaxStrLen and its suffixes, each followed by the terminator
\* 0: with MaxStrLen = 2 they are "", "b" and "ab", of all lengths up to
\* MaxStrLen and ordered "" < "ab" < "b" by strcmp.
Suffix(k) == [i \in 1..(k + 1) |-> IF i = k + 1 THEN 0 ELSE MaxStrLen - k + i]

CStrings == {Suffix(k) : k \in 0..MaxStrLen}

\* what the model keeps in a cell that is not allocated
Blank == << >>

\* the byte an output buffer holds before anything is written to it
Unwritten == -1

VARIABLES
    q,        \* the queue_t the caller holds: "NULL", "valid", "freed", "gone"
    head,     \* q->head
    tail,     \* q->tail
    size,     \* q->size
    next,     \* next[n]: the next field of cell n
    value,    \* value[n]: the bytes value of cell n points to
    live,     \* the cells malloc has handed out and free has not taken back
    halt,     \* "none", or how the run ended: "crashed", "hung", "undefined"
    last,     \* the last call: its name, result, arguments and output
    net,      \* inserts that returned true minus removes that returned true
    run       \* the calls made since the queue was last empty, as long as
              \* they are inserts at one end, then at most one q_sort or two
              \* q_reverse, then removes into a buffer that holds any string

vars == <<q, head, tail, size, next, value, live, halt, last, net, run>>
heap == <<head, tail, size, next, value, live>>

(***************************************************************************)
(* libc                                                                    *)
(***************************************************************************)
\* strlen: the number of bytes before the first terminator
RECURSIVE StrLenFrom(_, _)
StrLenFrom(mem, i) ==
    IF i > Len(mem) \/ mem[i] = 0 THEN i - 1 ELSE StrLenFrom(mem, i + 1)

strlen(mem) == StrLenFrom(mem, 1)

\* strcmp: the difference of the first pair of bytes that differ, 0 if none
RECURSIVE StrCmpFrom(_, _, _)
StrCmpFrom(a, b, i) ==
    IF a[i] # b[i] THEN a[i] - b[i]
    ELSE IF a[i] = 0 THEN 0
    ELSE StrCmpFrom(a, b, i + 1)

strcmp(a, b) == StrCmpFrom(a, b, 1)

\* memcpy(dst, src, n) into a buffer of Len(dst) bytes: the bytes that land
\* inside the buffer (bytes past its end fall outside of it)
memcpy(dst, src, n) ==
    [i \in 1..Len(dst) |->
        IF i <= n /\ i <= Len(src) THEN src[i] ELSE dst[i]]

\* a - b in size_t
SizeSub(a, b) == (a - b) % SizeMod

(***************************************************************************)
(* The record of the last call.                                            *)
(***************************************************************************)
\* op: the function called; ret: "true", "false", or "void" for a call
\* that returns nothing or never returns; fault: the undefined behaviour
\* or the endless loop it ran into; wf: the queue satisfied the data-model
\* invariants when it was called.  For a q_remove_head with a buffer: s,
\* the string of the element removed; bufsize; buf, the buffer afterwards;
\* written, the number of bytes stored through sp.
NoCall ==
    [op |-> "q_new", ret |-> "void", fault |-> "none", wf |-> TRUE,
     sp |-> "NULL", s |-> Blank, bufsize |-> 0, written |-> 0, buf |-> << >>]

Call(op, ret, fault, wf) ==
    [NoCall EXCEPT !.op = op, !.ret = ret, !.fault = fault, !.wf = wf]

(***************************************************************************)
(* The record of the calls since the queue was last empty.                 *)
(***************************************************************************)
\* kind: "none", or the end all inserts went to, "heads" or "tails", or
\* "off" once the calls are no longer of the shape
\*     inserts at one end; at most one q_sort or two q_reverse; removes
\* mid: "none", "q_reverse", "q_reverse twice" or "q_sort"; ins: the strings passed to the
\* inserts that returned true, in the order of the calls; outs: the buffers
\* the removes that returned true have filled, in the order of the calls
NewRun == [kind |-> "none", mid |-> "none", ins |-> << >>, outs |-> << >>]
OffRun == [NewRun EXCEPT !.kind = "off"]

\* the record once `call' is made; s is the string passed to an insert.
\* A call on an empty queue starts a new record; an insert or a remove
\* that returns false is not counted, nor is a remove that dies on a bad
\* pointer; a remove is followed only if its buffer has MaxBuf bytes,
\* which hold every string an insert was passed
RunAfter(call, s) ==
    LET r == IF size = 0 THEN NewRun ELSE run
        building == r.kind # "off" /\ r.mid = "none" /\ r.outs = << >>
        end == IF call.op = "q_insert_head" THEN "heads" ELSE "tails"
    IN  IF q = "NULL" THEN run
        ELSE IF call.op \in {"q_insert_head", "q_insert_tail"} THEN
            IF call.ret = "false" THEN r
            ELSE IF building /\ r.kind \in {"none", end} THEN
                [r EXCEPT !.kind = end, !.ins = Append(@, s)]
            ELSE OffRun
        ELSE IF call.op \in {"q_reverse", "q_sort"} THEN
            IF building THEN [r EXCEPT !.mid = call.op]
            ELSE IF call.op = "q_reverse" /\ r.kind # "off"
                    /\ r.mid = "q_reverse" /\ r.outs = << >> THEN
                [r EXCEPT !.mid = "q_reverse twice"]
            ELSE OffRun
        ELSE IF call.op = "q_remove_head" THEN
            IF call.ret = "false"
                  \/ call.fault \in {"null_deref", "use_after_free"} THEN r
            ELSE IF r.kind # "off" /\ call.sp = "buf"
                    /\ call.bufsize = MaxBuf THEN
                [r EXCEPT !.outs = Append(@, call.buf)]
            ELSE OffRun
        ELSE OffRun

(***************************************************************************)
(* The chain from head.                                                    *)
(***************************************************************************)
\* the cells met following nx from p, up to `fuel' of them
RECURSIVE ChainFrom(_, _, _)
ChainFrom(nx, p, fuel) ==
    IF p = NULL \/ fuel = 0 THEN << >>
    ELSE <<p>> \o ChainFrom(nx, nx[p], fuel - 1)

\* does following nx from p reach NULL within `fuel' steps?
RECURSIVE EndsFrom(_, _, _)
EndsFrom(nx, p, fuel) ==
    IF p = NULL THEN TRUE
    ELSE IF fuel = 0 THEN FALSE
    ELSE EndsFrom(nx, nx[p], fuel - 1)

Chain == ChainFrom(next, head, MaxNodes + 1)
Acyclic == EndsFrom(next, head, MaxNodes)

\* the data-model invariants of the queue
WellFormed ==
    /\ Acyclic
    /\ \A i \in 1..Len(Chain) : Chain[i] \in live
    /\ size = Len(Chain)
    /\ (size = 0) <=> (head = NULL)
    /\ (size = 0) <=> (tail = NULL)
    /\ size > 0 => tail = Chain[Len(Chain)] /\ next[tail] = NULL

(***************************************************************************)
(* q_new                                                                   *)
(***************************************************************************)
Init ==
    /\ q \in {"valid", "NULL"}
    /\ head = NULL
    /\ tail = NULL
    /\ size = 0
    /\ next = [n \in Nodes |-> NULL]
    /\ value = [n \in Nodes |-> Blank]
    /\ live = {}
    /\ halt = "none"
    /\ last = NoCall
    /\ net = 0
    /\ run = NewRun

Running == halt = "none" /\ q # "freed"

\* the memory of a process that is gone, and the fields of a queue_t that
\* has been freed: nothing is kept of them
NoQueue ==
    /\ head' = NULL
    /\ tail' = NULL
    /\ size' = 0

NoMemory ==
    /\ NoQueue
    /\ next' = [n \in Nodes |-> NULL]
    /\ value' = [n \in Nodes |-> Blank]
    /\ live' = {}

\* the run ends inside a call, which never returns
Stop(how, call) ==
    /\ halt' = how
    /\ last' = call
    /\ q' = "gone"
    /\ NoMemory
    /\ run' = RunAfter(call, Blank)
    /\ UNCHANGED net

\* a call that returns without touching the queue
NoEffect(call) ==
    /\ last' = call
    /\ run' = RunAfter(call, Blank)
    /\ UNCHANGED <<q, heap, halt, net>>

\* the two ways undefined behaviour ends the run
UBOutcomes == {"crashed", "undefined"}

(***************************************************************************)
(* malloc, free and loc_element                                            *)
(***************************************************************************)
\* free(n): the cell is given back and its contents are lost
FreeCell(f, n, blank) == [f EXCEPT ![n] = blank]

\* what malloc may answer to the two requests of loc_element
MallocOutcomes == {"ok", "no_node", "no_value"}

\* the cells malloc can offer; with none left it can only fail
Offers == IF Nodes \ live = {} THEN {NULL} ELSE Nodes \ live
Answers(n) == IF n = NULL THEN {"no_node"} ELSE MallocOutcomes

\* loc_element(s) when malloc offers cell n and answers m: the pointer it
\* returns and the heap it leaves
loc_element_Leak(s, n, m) ==
    IF m = "no_node" THEN
        [ptr |-> NULL, live |-> live, value |-> value, next |-> next]
    ELSE IF m = "no_value" THEN
        [ptr |-> NULL, live |-> live \cup {n}, value |-> value,
         next |-> next]
    ELSE
        LET s_length == strlen(s) + 1
            val == memcpy([i \in 1..s_length |-> Unwritten], s, s_length)
        IN  [ptr |-> n, live |-> live \cup {n},
             value |-> [value EXCEPT ![n] = val],
             next |-> [next EXCEPT ![n] = NULL]]

loc_element(s, n, m) ==
    IF m = "no_node" THEN
        [ptr |-> NULL, live |-> live, value |-> value, next |-> next]
    ELSE IF m = "no_value" THEN
        \* new was obtained and is freed again
        [ptr |-> NULL, live |-> (live \cup {n}) \ {n}, value |-> value,
         next |-> next]
    ELSE
        LET s_length == strlen(s) + 1
            val == memcpy([i \in 1..s_length |-> Unwritten], s, s_length)
        IN  [ptr |-> n, live |-> live \cup {n},
             value |-> [value EXCEPT ![n] = val],
             next |-> [next EXCEPT ![n] = NULL]]

(***************************************************************************)
(* q_insert_head                                                           *)
(***************************************************************************)
q_insert_head(s) ==
    /\ Running
    /\ IF q = "NULL" THEN
           NoEffect(Call("q_insert_head", "false", "none", WellFormed))
       ELSE
           \E n \in Offers : \E m \in Answers(n) :
               LET new == loc_element(s, n, m)
                   newh == new.ptr
                   call == Call("q_insert_head",
                                IF newh = NULL THEN "false" ELSE "true",
                                "none", WellFormed)
               IN  IF newh = NULL THEN
                       /\ live' = new.live
                       /\ last' = call
                       /\ run' = RunAfter(call, s)
                       /\ UNCHANGED <<q, head, tail, size, next, value, halt,
                                      net>>
                   ELSE
                       /\ tail' = IF tail = NULL THEN newh ELSE tail
                       /\ next' = [new.next EXCEPT ![newh] = head]
                       /\ head' = newh
                       /\ size' = size + 1
                       /\ value' = new.value
                       /\ live' = new.live
                       /\ last' = call
                       /\ run' = RunAfter(call, s)
                       /\ net' = net + 1
                       /\ UNCHANGED <<q, halt>>

(***************************************************************************)
(* q_insert_tail                                                           *)
(***************************************************************************)
\* lines 109-113: the links once newt is allocated.  A store through a
\* dangling q->tail lands in a freed cell, whose contents are lost.
LinkTail(nx, lv, newt) ==
    IF tail = NULL \/ tail \notin lv THEN nx ELSE [nx EXCEPT ![tail] = newt]

q_insert_tail(s) ==
    /\ Running
    /\ IF q = "NULL" THEN
           NoEffect(Call("q_insert_tail", "false", "none", WellFormed))
       ELSE
           \E n \in Offers : \E m \in Answers(n) :
               LET new == loc_element(s, n, m)
                   newt == new.ptr
                   \* q->tail->next = newt stores into a freed cell
                   uaf == newt # NULL /\ tail # NULL /\ tail \notin new.live
                   call == Call("q_insert_tail",
                                IF newt = NULL THEN "false" ELSE "true",
                                IF uaf THEN "use_after_free" ELSE "none",
                                WellFormed)
               IN  IF newt = NULL THEN
                       /\ live' = new.live
                       /\ last' = call
                       /\ run' = RunAfter(call, s)
                       /\ UNCHANGED <<q, head, tail, size, next, value, halt,
                                      net>>
                   ELSE
                       \E go \in BOOLEAN :
                           IF uaf /\ ~go THEN
                               Stop("crashed",
                                    [call EXCEPT !.ret = "void"])
                           ELSE
                               /\ uaf \/ go
                               /\ head' = IF tail = NULL THEN newt ELSE head
                               /\ next' = LinkTail(new.next, new.live, newt)
                               /\ tail' = newt
                               /\ size' = size + 1
                               /\ value' = new.value
                               /\ live' = new.live
                               /\ last' = call
                               /\ run' = RunAfter(call, s)
                               /\ net' = net + 1
                               /\ UNCHANGED <<q, halt>>

(***************************************************************************)
(* q_remove_head                                                           *)
(***************************************************************************)
\* lines 136-138: q->tail once q->size has been decremented to sz
TailAfterRemove_Kept(sz) == tail

TailAfterRemove(sz) == IF sz = 0 THEN NULL ELSE tail

\* line 143: is the string cut to fit the buffer?
Truncates(v_length, bufsize) == v_length > bufsize

\* lines 142-148: the buffer of bufsize bytes after the copy of val, and
\* the number of bytes stored through sp
CopyOut_NoTerminator(val, bufsize) ==
    LET v_length == strlen(val)
        buf0 == [i \in 1..bufsize |-> Unwritten]
    IN  IF Truncates(v_length, bufsize) THEN
            LET n == SizeSub(bufsize, 1)
                copied == memcpy(buf0, val, n)
            IN  [buf |-> [i \in 1..bufsize |->
                             IF i = n + 1 THEN 0 ELSE copied[i]],
                 written |-> n + 1]
        ELSE
            [buf |-> memcpy(buf0, val, v_length),
             written |-> v_length]

CopyOut(val, bufsize) ==
    LET v_length == strlen(val)
        buf0 == [i \in 1..bufsize |-> Unwritten]
    IN  IF Truncates(v_length, bufsize) THEN
            LET n == SizeSub(bufsize, 1)
                copied == memcpy(buf0, val, n)
            IN  [buf |-> [i \in 1..bufsize |->
                             IF i = n + 1 THEN 0 ELSE copied[i]],
                 written |-> n + 1]
        ELSE
            [buf |-> memcpy(buf0, val, v_length + 1),
             written |-> v_length + 1]

\* the record of a q_remove_head(q, sp, bufsize); without a buffer there
\* is nothing to record of bufsize
RemoveCall(ret, fault, sp, bufsize, s, out) ==
    IF sp = "NULL" THEN Call("q_remove_head", ret, fault, WellFormed)
    ELSE [Call("q_remove_head", ret, fault, WellFormed)
             EXCEPT !.sp = sp, !.bufsize = bufsize, !.s = s,
                    !.buf = out.buf, !.written = out.written]

q_remove_head(sp, bufsize) ==
    /\ Running
    /\ IF q = "NULL" \/ size = 0 THEN
           NoEffect(Call("q_remove_head", "false", "none", WellFormed))
       ELSE IF head = NULL THEN
           \* q->head->next with q->head null
           Stop("crashed",
                Call("q_remove_head", "void", "null_deref", WellFormed))
       ELSE IF head \notin live THEN
           \* q->head->next and target->value read a freed cell
           \E how \in UBOutcomes :
               Stop(how, Call("q_remove_head", "void", "use_after_free",
                              WellFormed))
       ELSE
           LET target == head
               out == IF sp = "NULL" THEN [buf |-> << >>, written |-> 0]
                      ELSE CopyOut(value[target], bufsize)
               \* bytes are stored past the end of the caller's buffer
               overflow == sp # "NULL" /\ out.written > bufsize
               call == RemoveCall("true",
                                  IF overflow THEN "overflow" ELSE "none",
                                  sp, bufsize, value[target], out)
           IN  \E go \in BOOLEAN :
                   IF overflow /\ ~go THEN
                       Stop("crashed",
                            RemoveCall("void", "overflow", sp, bufsize,
                                       value[target], out))
                   ELSE
                       \* with an overflow: the stray bytes land in memory
                       \* of the caller and the call returns
                       /\ overflow \/ go
                       /\ head' = next[target]
                       /\ size' = size - 1
                       /\ tail' = TailAfterRemove(size - 1)
                       /\ value' = FreeCell(value, target, Blank)
                       /\ next' = FreeCell(next, target, NULL)
                       /\ live' = live \ {target}
                       /\ last' = call
                       /\ run' = RunAfter(call, Blank)
                       /\ net' = net - 1
                       /\ UNCHANGED <<q, halt>>

(***************************************************************************)
(* q_size                                                                  *)
(***************************************************************************)
\* the value q_size(q) returns
q_size_result == IF q = "NULL" THEN 0 ELSE size

\* the call reads and changes nothing
q_size ==
    /\ Running
    /\ q_size_result >= 0
    /\ UNCHANGED vars

(***************************************************************************)
(* q_reverse                                                               *)
(***************************************************************************)
\* the while loop of lines 181-187, from the links nx with the locals cur
\* and nxt; `seen' holds the loop states already passed, so a state met
\* again is a loop that never ends; uaf: a freed cell was read or written
RECURSIVE ReverseLoop(_, _, _, _, _)
ReverseLoop(nx, cur, nxt, seen, uaf) ==
    IF nxt = NULL THEN [nx |-> nx, hang |-> FALSE, uaf |-> uaf]
    ELSE IF nxt \notin live THEN [nx |-> nx, hang |-> FALSE, uaf |-> TRUE]
    ELSE IF <<nx, cur, nxt>> \in seen THEN
        [nx |-> nx, hang |-> TRUE, uaf |-> uaf]
    ELSE
        LET tmp == nx[nxt]
        IN  ReverseLoop([nx EXCEPT ![nxt] = cur], nxt, tmp,
                        seen \cup {<<nx, cur, nxt>>}, uaf)

\* lines 174-193 when the loop ends: the links, q->head and q->tail that
\* q_reverse leaves of the links nx, the head h, the tail t and the size sz
Reversed_NoSwap(nx, h, t, sz) ==
    IF sz = 0 \/ sz = 1 THEN [next |-> nx, head |-> h, tail |-> t]
    ELSE
        LET r == ReverseLoop(nx, h, nx[h], {}, FALSE)
        IN  [next |-> [r.nx EXCEPT ![h] = NULL], head |-> h, tail |-> t]

Reversed_KeepLink(nx, h, t, sz) ==
    IF sz = 0 \/ sz = 1 THEN [next |-> nx, head |-> h, tail |-> t]
    ELSE
        LET r == ReverseLoop(nx, h, nx[h], {}, FALSE)
        IN  [next |-> r.nx, head |-> t, tail |-> h]

Reversed(nx, h, t, sz) ==
    IF sz = 0 \/ sz = 1 THEN [next |-> nx, head |-> h, tail |-> t]
    ELSE
        LET r == ReverseLoop(nx, h, nx[h], {}, FALSE)
        IN  [next |-> [r.nx EXCEPT ![h] = NULL], head |-> t, tail |-> h]

q_reverse ==
    /\ Running
    /\ IF q = "NULL" \/ size = 0 \/ size = 1 THEN
           NoEffect(Call("q_reverse", "void", "none", WellFormed))
       ELSE IF head = NULL THEN
           \* q->head->next with q->head null
           Stop("crashed", Call("q_reverse", "void", "null_deref", WellFormed))
       ELSE
           LET r == ReverseLoop(next, head, next[head], {}, head \notin live)
               call == Call("q_reverse", "void", "none", WellFormed)
           IN  IF r.uaf THEN
                   \E how \in UBOutcomes :
                       Stop(how, Call("q_reverse", "void", "use_after_free",
                                      WellFormed))
               ELSE IF r.hang THEN
                   Stop("hung", Call("q_reverse", "void", "hang", WellFormed))
               ELSE
                   /\ next' = Reversed(next, head, tail, size).next
                   /\ head' = Reversed(next, head, tail, size).head
                   /\ tail' = Reversed(next, head, tail, size).tail
                   /\ last' = call
                   /\ run' = RunAfter(call, Blank)
                   /\ UNCHANGED <<q, size, value, live, halt, net>>

(***************************************************************************)
(* recur_sort and q_sort                                                   *)
(***************************************************************************)
\* line 228: is the left element taken?
TakeLeft_Greater(l, r) == strcmp(l, r) >= 0

TakeLeft_Strict(l, r) == strcmp(l, r) < 0

TakeLeft(l, r) == strcmp(l, r) <= 0

\* line 205
Middle(length) == length \div 2

\* the result of recur_sort: the links, *target, and how it went:
\* "none", "null_deref", "use_after_free" or "hang"
SortResult(nx, t, fault) == [nx |-> nx, t |-> t, fault |-> fault]

\* lines 206-210: the cell *right_head names after k steps from p, every
\* cell on the way being dereferenced
RECURSIVE Advance(_, _, _)
Advance(nx, p, k) ==
    IF p = NULL THEN [p |-> NULL, fault |-> "null_deref"]
    ELSE IF p \notin live THEN [p |-> p, fault |-> "use_after_free"]
    ELSE IF k = 0 THEN [p |-> p, fault |-> "none"]
    ELSE Advance(nx, nx[p], k - 1)

\* the merge loop of lines 219-249; tgt is *target
RECURSIVE Merge(_, _, _, _, _, _, _)
Merge(nx, lst, left, right, flag, tgt, seen) ==
    IF <<nx, lst, left, right, flag, tgt>> \in seen THEN
        SortResult(nx, tgt, "hang")
    ELSE IF left = NULL \/ right = NULL THEN
        IF lst = NULL THEN SortResult(nx, tgt, "null_deref")
        ELSE IF lst \notin live THEN SortResult(nx, tgt, "use_after_free")
        ELSE SortResult([nx EXCEPT ![lst] = IF left = NULL THEN right
                                                           ELSE left],
                        tgt, "none")
    ELSE IF left \notin live \/ right \notin live \/ (flag /\ lst \notin live)
        THEN SortResult(nx, tgt, "use_after_free")
    ELSE
        LET seen1 == seen \cup {<<nx, lst, left, right, flag, tgt>>}
            pick == IF TakeLeft(value[left], value[right]) THEN left
                                                            ELSE right
            nx1 == IF flag THEN [nx EXCEPT ![lst] = pick] ELSE nx
        IN  IF pick = left THEN
                Merge(nx1, left, nx1[left], right, TRUE,
                      IF flag THEN tgt ELSE left, seen1)
            ELSE
                Merge(nx1, right, left, nx1[right], TRUE,
                      IF flag THEN tgt ELSE right, seen1)

\* recur_sort(target, length) with *target = t
RECURSIVE recur_sort(_, _, _)
recur_sort(nx, t, length) ==
    IF length <= 1 THEN SortResult(nx, t, "none")
    ELSE
        LET middle == Middle(length)
            at == Advance(nx, t, middle - 1)
        IN  IF at.fault # "none" THEN SortResult(nx, t, at.fault)
            ELSE
                LET nxt == nx[at.p]
                    cut == [nx EXCEPT ![at.p] = NULL]
                    l == recur_sort(cut, t, middle)
                IN  IF l.fault # "none" THEN l
                    ELSE
                        LET r == recur_sort(l.nx, nxt, length - middle)
                        IN  IF r.fault # "none" THEN r
                            ELSE Merge(r.nx, l.t, l.t, r.t, FALSE, l.t, {})

q_sort ==
    /\ Running
    /\ IF q = "NULL" \/ size = 0 \/ size = 1 THEN
           NoEffect(Call("q_sort", "void", "none", WellFormed))
       ELSE
           LET r == recur_sort(next, head, size)
               call == Call("q_sort", "void", r.fault, WellFormed)
           IN  IF r.fault = "null_deref" THEN Stop("crashed", call)
               ELSE IF r.fault = "use_after_free" THEN
                   \E how \in UBOutcomes : Stop(how, call)
               ELSE IF r.fault = "hang" THEN Stop("hung", call)
               ELSE
                   /\ next' = r.nx
                   /\ head' = r.t
                   /\ last' = call
                   /\ run' = RunAfter(call, Blank)
                   /\ UNCHANGED <<q, tail, size, value, live, halt, net>>

(***************************************************************************)
(* q_free                                                                  *)
(***************************************************************************)
\* the while loop of lines 31-36 from q->head = h with lv the live cells;
\* uaf: q->head names a cell that is not live, one freed earlier or one
\* this loop has freed
RECURSIVE FreeLoop(_, _)
FreeLoop(h, lv) ==
    IF h = NULL THEN [live |-> lv, uaf |-> FALSE]
    ELSE IF h \notin lv THEN [live |-> lv, uaf |-> TRUE]
    ELSE FreeLoop(next[h], lv \ {h})

q_free ==
    /\ Running
    /\ IF q = "NULL" THEN
           NoEffect(Call("q_free", "void", "none", WellFormed))
       ELSE
           LET r == FreeLoop(head, live)
               call == Call("q_free", "void", "none", WellFormed)
           IN  IF r.uaf THEN
                   \E how \in UBOutcomes :
                       Stop(how, Call("q_free", "void", "use_after_free",
                                      WellFormed))
               ELSE
                   /\ q' = "freed"
                   /\ NoQueue
                   /\ live' = r.live
                   /\ next' = [n \in Nodes |->
                                  IF n \in r.live THEN next[n] ELSE NULL]
                   /\ value' = [n \in Nodes |->
                                   IF n \in r.live THEN value[n] ELSE Blank]
                   /\ last' = call
                   /\ run' = RunAfter(call, Blank)
                   /\ UNCHANGED <<halt, net>>

(***************************************************************************)
(* The program: any sequence of calls.                                     *)
(***************************************************************************)
BufSizes == 0..MaxBuf

Next ==
    \/ \E s \in CStrings : q_insert_head(s)
    \/ \E s \in CStrings : q_insert_tail(s)
    \/ \E sp \in {"NULL", "buf"} : \E bufsize \in BufSizes :
           q_remove_head(sp, bufsize)
    \/ q_size
    \/ q_reverse
    \/ q_sort
    \/ q_free

Spec == Init /\ [][Next]_vars

\* the calls of q_insert_head, q_insert_tail and q_remove_head alone
NextInsertRemove ==
    \/ \E s \in CStrings : q_insert_head(s)
    \/ \E s \in CStrings : q_insert_tail(s)
    \/ \E sp \in {"NULL", "buf"} : \E bufsize \in BufSizes :
           q_remove_head(sp, bufsize)

SpecInsertRemove == Init /\ [][NextInsertRemove]_vars

(***************************************************************************)
(* Vocabulary of the properties.                                           *)
(***************************************************************************)
\* the cells of a sequence of cells
CellsOf(c) == {c[i] : i \in 1..Len(c)}

\* the place of cell x in the sequence c
Pos(c, x) == CHOOSE k \in 1..Len(c) : c[k] = x

\* the characters of a stored string: the bytes before its terminator
Text(mem) == SubSeq(mem, 1, strlen(mem))

\* lexicographic order of two texts, byte by byte
LexLeq(a, b) ==
    \/ Len(a) <= Len(b) /\ \A i \in 1..Len(a) : a[i] = b[i]
    \/ \E k \in 1..Len(a) :
           /\ k <= Len(b)
           /\ \A i \in 1..(k - 1) : a[i] = b[i]
           /\ a[k] < b[k]

\* q->tail is the last cell of the chain from q->head, and ends it
TailIsLast ==
    /\ tail # NULL
    /\ Len(Chain) > 0
    /\ tail = Chain[Len(Chain)]
    /\ next[tail] = NULL

\* a call of op has returned into the state, on a queue that satisfied the
\* data-model invariants when the call was made
Returned(op) == last.op = op /\ last.wf /\ q = "valid" /\ halt = "none"

Min(a, b) == IF a <= b THEN a ELSE b

\* the strings along the chain from head never descend
SortedChain ==
    \A i \in 1..(Len(Chain) - 1) :
        LexLeq(Text(value[Chain[i]]), Text(value[Chain[i + 1]]))

\* a step of q_sort from a queue of at least two elements that satisfies
\* the data-model invariants
SortsWellFormed ==
    last'.op = "q_sort" /\ WellFormed /\ q = "valid" /\ size >= 2

\* what such a step leaves of the cells and of their order
SortStep ==
    SortsWellFormed =>
        /\ halt' = "none"
        /\ size' = size
        /\ live' = live
        /\ value' = value
        /\ Acyclic'
        /\ Len(Chain') = Len(Chain)
        /\ CellsOf(Chain') = CellsOf(Chain)
        /\ SortedChain'

\* what such a step leaves of the order of elements with equal strings
StableStep ==
    SortsWellFormed =>
        \A i \in 1..Len(Chain) : \A j \in (i + 1)..Len(Chain) :
            Text(value[Chain[i]]) = Text(value[Chain[j]]) =>
                /\ Chain[i] \in CellsOf(Chain')
                /\ Chain[j] \in CellsOf(Chain')
                /\ Pos(Chain', Chain[i]) < Pos(Chain', Chain[j])

\* what a q_insert_tail that returns true does to the chain
AppendStep ==
    (last'.op = "q_insert_tail" /\ last'.ret = "true" /\ q = "valid") =>
        /\ Chain' = Append(Chain, tail')
        /\ \A i \in 1..Len(Chain) : value'[Chain[i]] = value[Chain[i]]
        /\ next'[tail'] = NULL
        /\ size' = size + 1

\* a sequence back to front
Reverse(c) == [i \in 1..Len(c) |-> c[Len(c) + 1 - i]]

\* the buffer buf holds the string s, terminator included, from its start
Holds(buf, s) == Len(buf) >= Len(s) /\ \A k \in 1..Len(s) : buf[k] = s[k]

\* what a q_reverse on a queue that satisfies the data-model invariants
\* leaves of the chain
ReverseStep ==
    (last'.op = "q_reverse" /\ WellFormed /\ q = "valid") =>
        /\ halt' = "none"
        /\ Chain' = Reverse(Chain)
        /\ head' = tail
        /\ tail' = head
        /\ size > 0 => next'[tail'] = NULL
        /\ size' = size
        /\ live' = live
        /\ value' = value
        /\ WellFormed'

\* the calls since the queue was empty are n q_insert_head, a q_reverse
\* and some q_remove_head
HeadsReversed == run.kind = "heads" /\ run.mid = "q_reverse"

\* then every remove has returned the string of the insert of the same rank
InsertionOrder ==
    HeadsReversed =>
        /\ halt = "none"
        /\ Len(run.outs) <= Len(run.ins)
        /\ size = Len(run.ins) - Len(run.outs)
        /\ \A i \in 1..Len(run.outs) : Holds(run.outs[i], run.ins[i])

\* the strings of the cells of a sequence of cells
Strings(c) == [i \in 1..Len(c) |-> value[c[i]]]

\* the strings the inserts of the run have put in the queue, head to tail
Inserted == IF run.kind = "heads" THEN Reverse(run.ins) ELSE run.ins

\* q_reverse applied twice to the queue leaves the chain and q->tail as
\* they are
TwiceReversedSame ==
    LET once == Reversed(next, head, tail, size)
        twice == Reversed(once.next, once.head, once.tail, size)
    IN  /\ EndsFrom(twice.next, twice.head, MaxNodes)
        /\ ChainFrom(twice.next, twice.head, MaxNodes + 1) = Chain
        /\ twice.head = head
        /\ twice.tail = tail

\* two q_reverse have just been made after the inserts on an empty queue
JustReversedTwice ==
    run.kind # "off" /\ run.mid = "q_reverse twice" /\ run.outs = << >>

\* the number of buffers or strings of the sequence c that hold the text v
Count(c, v) == Cardinality({i \in 1..Len(c) : Text(c[i]) = v})

\* the calls since the queue was empty are n q_insert_tail, a q_sort and
\* some q_remove_head
TailsSorted == run.kind = "tails" /\ run.mid = "q_sort"

\* then no call has failed, the removes have returned strings that were
\* inserted, in ascending order, and the n-th leaves the queue empty
SortedRun ==
    TailsSorted =>
        /\ halt = "none"
        /\ last.op = "q_remove_head" => last.ret = "true"
        /\ Len(run.outs) <= Len(run.ins)
        /\ size = Len(run.ins) - Len(run.outs)
        /\ \A i \in 1..(Len(run.outs) - 1) :
               LexLeq(Text(run.outs[i]), Text(run.outs[i + 1]))
        /\ \A i \in 1..Len(run.outs) :
               Count(run.outs, Text(run.outs[i]))
                   <= Count(run.ins, Text(run.outs[i]))
        /\ Len(run.outs) = Len(run.ins) =>
               size = 0 /\ head = NULL /\ tail = NULL

\* what a q_sort leaves of a chain whose strings never descend, on a queue
\* that satisfies the data-model invariants
SortedStaysStep ==
    (last'.op = "q_sort" /\ WellFormed /\ q = "valid" /\ SortedChain) =>
        /\ halt' = "none"
        /\ Chain' = Chain
        /\ value' = value

\* what an insert that returns false leaves of the queue and of the heap
FailedInsertStep ==
    (last'.op \in {"q_insert_head", "q_insert_tail"} /\ last'.ret = "false"
        /\ q = "valid") =>
        /\ halt' = "none"
        /\ q' = "valid"
        /\ head' = head
        /\ tail' = tail
        /\ size' = size
        /\ Chain' = Chain
        /\ next' = next
        /\ value' = value
        /\ live' = live

\* what a q_remove_head on an empty queue does
RemoveFromEmptyStep ==
    (last'.op = "q_remove_head" /\ q = "valid" /\ size = 0) =>
        /\ last'.ret = "false"
        /\ halt' = "none"
        /\ q' = "valid"
        /\ size' = size
        /\ head' = head
        /\ tail' = tail
        /\ next' = next
        /\ value' = value
        /\ live' = live

\* a q_insert_head has just returned true on a queue that was empty
InsertedHeadInEmpty ==
    /\ q = "valid"
    /\ last.op = "q_insert_head"
    /\ last.ret = "true"
    /\ size = 1

\* what the q_remove_head that follows does, unless it is given a buffer
\* the string overflows
RemoveTheOneStep ==
    (InsertedHeadInEmpty /\ last'.op = "q_remove_head"
        /\ last'.fault # "overflow") =>
        /\ last'.ret = "true"
        /\ halt' = "none"
        /\ q' = "valid"
        /\ size' = 0
        /\ head' = NULL
        /\ tail' = NULL
        /\ live' = live \ {head}

\* a q_insert_tail of the string run.ins[1] has just returned true on a
\* queue that was empty
InsertedTailInEmpty ==
    /\ q = "valid"
    /\ last.op = "q_insert_tail"
    /\ last.ret = "true"
    /\ run.kind = "tails"
    /\ run.mid = "none"
    /\ Len(run.ins) = 1
    /\ run.outs = << >>

\* what the q_remove_head that follows does when its buffer is longer than
\* the string: it stores the string and its terminator and nothing else
RoundTripStep ==
    (InsertedTailInEmpty /\ last'.op = "q_remove_head") =>
        /\ last'.fault \notin {"null_deref", "use_after_free"}
        /\ (last'.sp = "buf" /\ last'.bufsize > strlen(run.ins[1])) =>
               /\ last'.ret = "true"
               /\ last'.fault = "none"
               /\ halt' = "none"
               /\ last'.s = run.ins[1]
               /\ Holds(last'.buf, run.ins[1])
               /\ last'.written = Len(run.ins[1])
               /\ \A k \in (Len(run.ins[1]) + 1)..Len(last'.buf) :
                      last'.buf[k] = Unwritten

(***************************************************************************)
(* C1: after q_sort returns on a queue that held at least two elements and *)
(* satisfied the data-model invariants, q->tail is the last cell reachable *)
(* from q->head and its next link is null.                                 *)
(***************************************************************************)
C1_TailAfterSort == (Returned("q_sort") /\ size >= 2) => TailIsLast

(***************************************************************************)
(* C2: in every state reached from q_new by calls of q_insert_head,        *)
(* q_insert_tail, q_remove_head, q_reverse and q_sort, size is the number  *)
(* of cells reachable from head by following next.                         *)
(***************************************************************************)
C2_SizeIsChainLength ==
    (q = "valid") => size = Cardinality(CellsOf(Chain))

(***************************************************************************)
(* C3: in every such state, size == 0, head == NULL and tail == NULL are   *)
(* all true or all false.                                                  *)
(***************************************************************************)
C3_EmptyAgree ==
    (q = "valid") =>
        /\ (size = 0) <=> (head = NULL)
        /\ (head = NULL) <=> (tail = NULL)

(***************************************************************************)
(* C4: q_remove_head with a non-null sp stores at most bufsize bytes       *)
(* through sp, whatever the length of the string and whatever bufsize.     *)
(***************************************************************************)
C4_NoOverflow ==
    (last.op = "q_remove_head" /\ last.sp = "buf") =>
        last.written <= last.bufsize

(***************************************************************************)
(* C5: when q_remove_head returns true with a buffer of capacity C >= 1    *)
(* and the string removed has length L, the buffer holds the first         *)
(* min(L, C-1) bytes of the string followed by a terminator.               *)
(***************************************************************************)
C5_TruncatedCopy ==
    (last.op = "q_remove_head" /\ last.ret = "true" /\ last.sp = "buf"
        /\ last.bufsize >= 1) =>
        LET k == Min(Len(Text(last.s)), last.bufsize - 1)
        IN  /\ \A i \in 1..k : last.buf[i] = last.s[i]
            /\ last.buf[k + 1] = 0

(***************************************************************************)
(* C6: q_sort on a queue of n >= 2 elements that satisfies the invariants  *)
(* returns with the same n cells in the chain from head, each once, no     *)
(* cell allocated or freed, no string changed, size unchanged, and the     *)
(* strings along the chain in non-decreasing lexicographic order.          *)
(***************************************************************************)
C6_SortPermutesInOrder == [][SortStep]_vars

\* q_sort has returned on a well-formed queue of three elements and has
\* moved the former last element away from the end
C6_Witness ==
    /\ Returned("q_sort")
    /\ size = 3
    /\ Len(Chain) = 3
    /\ tail # Chain[3]

(***************************************************************************)
(* C7: q_sort is stable: of two elements with equal strings, the one       *)
(* nearer the head before the sort is nearer the head after it.            *)
(***************************************************************************)
C7_SortStable == [][StableStep]_vars

\* q_sort has returned on a well-formed queue of three elements, two of
\* them with equal strings, and has moved the former last element
C7_Witness ==
    /\ Returned("q_sort")
    /\ size = 3
    /\ Len(Chain) = 3
    /\ tail # Chain[3]
    /\ \E i \in 1..3 : \E j \in 1..3 :
           i # j /\ value[Chain[i]] = value[Chain[j]]

(***************************************************************************)
(* C8: q_insert_tail that returns true appends: the chain from head is the *)
(* chain as it was followed by the new element, which is the new tail, and *)
(* size has grown by one.                                                  *)
(***************************************************************************)
C8_InsertTailAppends == [][AppendStep]_vars

(***************************************************************************)
(* C9: once q_free has returned, every element a successful insert         *)
(* allocated has been released exactly once: none is still allocated and   *)
(* none was freed twice.                                                   *)
(***************************************************************************)
C9_AllReleased ==
    (last.op = "q_free" /\ q # "NULL") =>
        /\ last.fault = "none"
        /\ live = {}

(***************************************************************************)
(* C10: after any sequence of q_insert_head, q_insert_tail and             *)
(* q_remove_head on a new queue, size is the number of inserts that        *)
(* returned true minus the number of removes that returned true, and size  *)
(* is 0 exactly when head and tail are both null.                          *)
(***************************************************************************)
C10_SizeCounts ==
    (q = "valid") =>
        /\ size = net
        /\ (size = 0) <=> (head = NULL /\ tail = NULL)

\* a remove has returned true and left the queue empty
C10_Witness ==
    /\ q = "valid"
    /\ last.op = "q_remove_head"
    /\ last.ret = "true"
    /\ size = 0
    /\ net = 0
    /\ head = NULL
    /\ tail = NULL

(***************************************************************************)
(* C11: q_reverse on a queue that satisfies the invariants leaves the same *)
(* cells in the exact reverse of their head-to-tail order, the former head *)
(* as the tail with a null next, the former tail as the head, and size     *)
(* unchanged; and after n q_insert_head on an empty queue and a q_reverse, *)
(* the q_remove_head calls return the strings in the order of insertion.   *)
(***************************************************************************)
C11_ReverseReverses == [][ReverseStep /\ InsertionOrder']_vars

\* three q_insert_head, not all of the same string, a q_reverse and three
\* q_remove_head have been made on an empty queue
C11_Witness ==
    /\ HeadsReversed
    /\ Len(run.ins) = 3
    /\ Len(run.outs) = 3
    /\ run.ins[1] # run.ins[3]
    /\ last.op = "q_remove_head"

(***************************************************************************)
(* C12: q_reverse applied twice to a queue that satisfies the invariants,  *)
(* of any size, restores the head-to-tail order of the elements and leaves *)
(* q->tail on the element it was on before the two calls.                  *)
(***************************************************************************)
C12_ReverseTwice ==
    /\ (q = "valid" /\ WellFormed) => TwiceReversedSame
    /\ JustReversedTwice =>
           halt = "none" /\ WellFormed /\ Strings(Chain) = Inserted

\* q_reverse has been called twice on a queue of three elements that were
\* inserted at the tail of an empty queue, not all with the same string
C12_Witness ==
    /\ JustReversedTwice
    /\ run.kind = "tails"
    /\ Len(run.ins) = 3
    /\ run.ins[1] # run.ins[3]
    /\ last.op = "q_reverse"
    /\ size = 3

(***************************************************************************)
(* C13: after n q_insert_tail on an empty queue, of any strings in any     *)
(* order, a q_sort and n q_remove_head, all n removes have returned true,  *)
(* they have returned the inserted strings in ascending order, and the     *)
(* queue is empty: size 0, head null and tail null.                        *)
(***************************************************************************)
C13_SortThenDrain == SortedRun

\* three strings inserted at the tail in descending order have been sorted
\* and removed
C13_Witness ==
    /\ TailsSorted
    /\ Len(run.ins) = 3
    /\ Len(run.outs) = 3
    /\ ~LexLeq(Text(run.ins[1]), Text(run.ins[2]))
    /\ ~LexLeq(Text(run.ins[2]), Text(run.ins[3]))
    /\ last.op = "q_remove_head"
    /\ size = 0

(***************************************************************************)
(* C14: q_sort on a queue whose strings are already in non-decreasing      *)
(* order, equal strings included, leaves the chain from head as it was:    *)
(* the same cells in the same places.                                      *)
(***************************************************************************)
C14_SortedUnmoved == [][SortedStaysStep]_vars

\* q_sort has returned on three elements inserted at the tail of an empty
\* queue in ascending order, two of them with the same string
C14_Witness ==
    /\ TailsSorted
    /\ run.outs = << >>
    /\ Len(run.ins) = 3
    /\ LexLeq(Text(run.ins[1]), Text(run.ins[2]))
    /\ LexLeq(Text(run.ins[2]), Text(run.ins[3]))
    /\ run.ins[1] # run.ins[3]
    /\ \E i \in 1..2 : run.ins[i] = run.ins[i + 1]
    /\ Returned("q_sort")
    /\ TailIsLast

(***************************************************************************)
(* C15: when malloc fails for the element or for the copy of the string,   *)
(* q_insert_head and q_insert_tail return false and leave head, tail, size *)
(* and the chain as they were, with no cell left allocated or linked.      *)
(***************************************************************************)
C15_FailedInsertKeeps == [][FailedInsertStep]_vars

\* an insert at the tail of a queue of two elements has returned false
\* while malloc still had a cell to offer
C15_Witness ==
    /\ q = "valid"
    /\ halt = "none"
    /\ last.op = "q_insert_tail"
    /\ last.ret = "false"
    /\ size = 2
    /\ Len(Chain) = 2
    /\ Cardinality(live) = 2

(***************************************************************************)
(* C16: q_remove_head on an empty queue returns false and leaves size,     *)
(* head and tail unchanged; and a q_insert_head on an empty queue followed *)
(* by one q_remove_head leaves the queue empty, head and tail both null.   *)
(***************************************************************************)
C16_EmptyBoundary == [][RemoveFromEmptyStep /\ RemoveTheOneStep]_vars

\* one q_insert_head on an empty queue and one q_remove_head have been made
C16_Witness ==
    /\ run.kind = "heads"
    /\ run.mid = "none"
    /\ Len(run.ins) = 1
    /\ Len(run.outs) = 1
    /\ q = "valid"
    /\ last.op = "q_remove_head"
    /\ last.ret = "true"
    /\ size = 0
    /\ head = NULL
    /\ tail = NULL

(***************************************************************************)
(* C17: on an empty queue, q_insert_tail(v) followed at once by a          *)
(* q_remove_head with a buffer longer than v returns true and stores       *)
(* exactly v, terminator included, in the buffer, for every v, the string  *)
(* of length zero included.                                                *)
(***************************************************************************)
C17_RoundTrip == [][RoundTripStep]_vars

\* the longest string has been inserted at the tail of an empty queue and
\* removed into a buffer one byte longer than it
C17_Witness ==
    /\ run.kind = "tails"
    /\ run.mid = "none"
    /\ Len(run.ins) = 1
    /\ Len(run.outs) = 1
    /\ strlen(run.ins[1]) = MaxStrLen
    /\ last.op = "q_remove_head"
    /\ last.ret = "true"
    /\ last.bufsize = MaxStrLen + 1
    /\ last.buf = run.ins[1]

(***************************************************************************)
(* C18: in every state reached from q_new by calls of q_insert_head,       *)
(* q_insert_tail, q_remove_head, q_reverse and q_sort, the chain from head *)
(* is acyclic: following next from head reaches null and meets no cell     *)
(* twice.                                                                  *)
(***************************************************************************)
C18_NoCycle ==
    (q = "valid") =>
        /\ Acyclic
        /\ Cardinality(CellsOf(Chain)) = Len(Chain)

(***************************************************************************)
(* C19: every call terminates in every reachable state: the loops of       *)
(* q_reverse and q_free and the recursion and the merge loop of q_sort     *)
(* come to an end.                                                         *)
(***************************************************************************)
C19_Terminates == halt # "hung"

(***************************************************************************)
(* C20: in every state reached from q_new by calls of q_insert_head,       *)
(* q_insert_tail, q_remove_head, q_reverse and q_sort, no call             *)
(* dereferences a null pointer or an element that has been freed.          *)
(***************************************************************************)
C20_NoBadPointer ==
    (last.op \in {"q_insert_head", "q_insert_tail", "q_remove_head",
                  "q_reverse", "q_sort"}) =>
        last.fault \notin {"null_deref", "use_after_free"}

=============================================================================
